---- MODULE Spec2Model ----
(***************************************************************************)
(* Realtime chat delivery of the school-management backend.                *)
(*                                                                         *)
(* The repository holds several builds of one server.  Each wires a        *)
(* go-socket.io server to a MongoDB "messages" collection:                 *)
(*                                                                         *)
(*   "presence"  src/unnamed/part_000   activeUsers map, send_message      *)
(*                                      broadcast to room ""               *)
(*   "global"    src/main.go:385-746    OnConnect joins room "global",     *)
(*               (= src/unnamed/part_002, src/main.go:748-992)             *)
(*                                      send_message broadcast to "global" *)
(*   "stamped"   src/unnamed/part_001   chatMessage, createdAt set, then   *)
(*                                      BroadcastToNamespace               *)
(*   "raw"       src/main.go:1-383      chatMessage stored as received,    *)
(*                                      then BroadcastToNamespace          *)
(*                                                                         *)
(* The build is chosen in Init and never changes.  In Spec every handler   *)
(* is one action; ConcSpec runs the socket handlers of the presence build  *)
(* statement by statement, one goroutine per connection, around the mutex  *)
(* mu; PresenceSpec is its presence part with the active_users broadcasts  *)
(* remembered; LiveSpec runs the submits of that build with InsertOne as a *)
(* call that is pending until the store answers; HttpSpec serves the HTTP  *)
(* write routes of all builds, one request per step.                       *)
(* The socket library is modelled by what its calls do:                    *)
(* Join(room) adds the connection to the room, BroadcastToRoom(room) emits *)
(* once to each member of that room, BroadcastToNamespace emits once per   *)
(* (room, member) pair, every connection being a member of the room named  *)
(* by its own id, and a disconnect removes the connection from all rooms.  *)
(***************************************************************************)
EXTENDS Integers, Sequences, FiniteSets, TLC

\* Number of connection handles that may ever be opened.
MaxConn == 2
\* Number of submit requests (realtime or REST) that may be made.
MaxSubmits == 1
\* Number of HTTP requests that may be received.
MaxRequests == 2

\* Connection handles; 0 stands for no handle.
Handles == 1..MaxConn

Users == {"alice", "bob"}
\* A user identifier as a client may send it: the empty string is possible.
UserInputs == Users \cup {""}
NoUser == "<none>"

Variants == {"presence", "global", "stamped", "raw"}
RoomNames == {"", "global"}

VARIABLES
    variant,      \* which build is running
    conns,        \* live connection handles (socketio.Conn)
    closed,       \* handles whose disconnect has been processed
    rooms,        \* named rooms of namespace "/": room -> set of handles
    activeUsers,  \* part_000: map socketID -> username, as a set of <<key, value>>
    store,        \* the messages collection: sequence of inserted documents
    clock,        \* server time, one tick per submit request
    delivered,    \* documents that were emitted to at least one connection
    newest,       \* history: user -> handle of the most recent user_online naming it
    last,         \* the most recent handler invocation and what it did
    proc,         \* per connection: where the goroutine serving it stands, its locals
    mu,           \* part_000: holder of the sync.Mutex mu, 0 when unlocked
    serial,       \* history: the registry had each operation run whole at its Lock
    sent,         \* part_000: the list of the most recent active_users broadcast
    http,         \* the most recent HTTP exchange: request, answer, what it did
    posts,        \* the posts collection: number of inserted documents
    modules,      \* the modules collection: set of module records
    files         \* the file store (./uploads or GridFS): names that hold a file

\* The state of the goroutines, read only by the step-by-step specification.
concVars == <<proc, mu, serial, sent>>

\* The state of the HTTP side, read only by the specification of the routes.
restVars == <<http, posts, modules, files>>

vars == <<variant, conns, closed, rooms, activeUsers, store, clock, delivered,
          newest, last, proc, mu, serial, sent, http, posts, modules, files>>

-----------------------------------------------------------------------------
\* Go map operations on a map held as a set of <<key, value>> pairs.

MapHas(m, k) == \E p \in m : p[1] = k

\* m[k]: the zero value "" when the key is absent.
MapGet(m, k) == IF MapHas(m, k) THEN (CHOOSE p \in m : p[1] = k)[2] ELSE ""

\* Faulty m[k] = v: the key's previous entry is left in place.
MapSetKeepOld(m, k, v) == m \cup {<<k, v>>}

\* m[k] = v
MapSet(m, k, v) == {p \in m : p[1] # k} \cup {<<k, v>>}

\* Faulty delete(m, k): no entry is removed.
MapDeleteAbsent(m, k) == m

\* Faulty delete(m, k): every entry holding the value of m[k] is removed.
MapDeleteValue(m, k) == {p \in m : p[2] # MapGet(m, k)}

\* delete(m, k)
MapDelete(m, k) == {p \in m : p[1] # k}

-----------------------------------------------------------------------------
\* Messages.

NoStamp == [src |-> "none", t |-> 0]
ClientStamp == [src |-> "client", t |-> 0]

\* time.Now() read while the request numbered now is handled.
ServerStamp(now) == [src |-> "server", t |-> now]

Payload(s, r, b, c) == [sender |-> s, receiver |-> r, body |-> b, createdAt |-> c]

\* What clients send: well-formed messages between the users, one of them
\* carrying the client's own createdAt, a message to oneself, and messages
\* with the sender, the receiver or the body left empty.
Payloads ==
    { Payload("alice", "bob", "hi", NoStamp),
      Payload("alice", "bob", "hi", ClientStamp),
      Payload("bob", "alice", "hi", NoStamp),
      Payload("alice", "alice", "hi", NoStamp),
      Payload("", "bob", "hi", NoStamp),
      Payload("alice", "", "hi", NoStamp),
      Payload("alice", "bob", "", NoStamp) }

\* The zero value of a message as sent.
NoInput == Payload("", "", "", NoStamp)

\* POST /sendMessage requests: a wrong method, a body that does not decode,
\* or a decodable payload.
RestRequests ==
    { [method |-> "GET", decodes |-> TRUE, in |-> Payload("alice", "bob", "hi", NoStamp)],
      [method |-> "POST", decodes |-> FALSE, in |-> NoInput] }
    \cup { [method |-> "POST", decodes |-> TRUE, in |-> p] : p \in Payloads }

NoMsg == [sender |-> "", receiver |-> "", body |-> "", createdAt |-> NoStamp, id |-> 0]

\* The decoded request: the payload, tagged with the number of the request.
Decode(in, now) ==
    [sender |-> in.sender, receiver |-> in.receiver, body |-> in.body,
     createdAt |-> in.createdAt, id |-> now]

\* msg.CreatedAt = time.Now()
Stamp(m, now) == [m EXCEPT !.createdAt = ServerStamp(now)]

-----------------------------------------------------------------------------
\* The socket library's fan-out: pushes per handle.

NoPush == [h \in Handles |-> 0]

\* Faulty broadcast: emits to every connection ever opened, closed ones too.
BroadcastToStale(room) == [h \in Handles |-> IF h \in conns \cup closed THEN 1 ELSE 0]

\* server.BroadcastToRoom("/", room, event, msg): one emit per member of room.
BroadcastToRoom(room) == [h \in Handles |-> IF h \in rooms[room] THEN 1 ELSE 0]

\* server.BroadcastToNamespace("/", event, msg): one emit per (room, member)
\* pair; every live connection is in the room named by its own id.
BroadcastToNamespace ==
    [h \in Handles |->
        (IF h \in conns THEN 1 ELSE 0) + Cardinality({r \in RoomNames : h \in rooms[r]})]

\* Faulty handler: the broadcast is made whatever InsertOne returned.
PushAnyway(ok, push) == push

\* if err != nil { log; return }  before the broadcast
AfterInsert(ok, push) == IF ok THEN push ELSE NoPush

\* Faulty broadcast argument: the message as it was before it was stamped.
BroadcastUnstamped(m) == [m EXCEPT !.createdAt = NoStamp]

\* The last argument of the broadcast call: the variable msg that was handed
\* to InsertOne.
BroadcastArg(m) == m

\* Faulty handler: an emit that failed turns the submit into a failure.
FailOnEmitError(resp, failed) == IF failed # {} THEN "500" ELSE resp

\* The handler's answer after the broadcast: the broadcast's result is not
\* read, so the emits that failed change nothing.
AfterEmit(resp, failed) == resp

-----------------------------------------------------------------------------
Idle ==
    [op |-> "init", path |-> "none", h |-> 0, user |-> NoUser,
     msg |-> NoMsg, ok |-> FALSE, push |-> NoPush, resp |-> "none", logged |-> FALSE,
     in |-> NoInput, payload |-> NoMsg, failed |-> {}, inserts |-> 0]

\* getActiveUserList's result: how many entries hold each name (the order of
\* the slice is the map's iteration order and is not kept).
NoUsers == [u \in UserInputs |-> 0]

\* A connection that has not been opened: no handler running, no locals.
Fresh == [at |-> "unopened", op |-> "none", username |-> NoUser, users |-> NoUsers]

\* No HTTP request has been served yet.
\* n counts the requests received; status 0: no answer written (yet).
\* headers: the CORS headers are set; calls: invocations of the route's handler;
\* inserts: calls of InsertOne and ok: the insert or delete succeeded;
\* wrote: the request stored its file whole; file, id: the file and module it
\* names.
NoExchange ==
    [n |-> 0, route |-> "none", method |-> "none", body |-> "none", status |-> 0,
     headers |-> FALSE, calls |-> 0, inserts |-> 0, ok |-> FALSE, wrote |-> FALSE,
     file |-> "", id |-> 0]

Init ==
    /\ variant \in Variants
    /\ conns = {}
    /\ closed = {}
    /\ rooms = [r \in RoomNames |-> {}]
    /\ activeUsers = {}
    /\ store = <<>>
    /\ clock = 0
    /\ delivered = {}
    /\ newest = [u \in Users |-> 0]
    /\ last = Idle
    /\ proc = [h \in Handles |-> Fresh]
    /\ mu = 0
    /\ serial = {}
    /\ sent = NoUsers
    /\ http = NoExchange
    /\ posts = 0
    /\ modules = {}
    /\ files = {}

\* A submit handler's effect on the store, the delivery history and last.
\* in is the payload received, m the document handed to InsertOne (called
\* once), ok its outcome, push the emits made.  Any of the emits may fail.
Finish(op, path, in, m, ok, push, resp) ==
    LET pushed == {x \in Handles : push[x] > 0}
    IN /\ clock' = clock + 1
       /\ store' = IF ok THEN Append(store, m) ELSE store
       /\ delivered' = IF pushed # {} THEN delivered \cup {BroadcastArg(m)} ELSE delivered
       /\ \E failed \in SUBSET pushed :
             last' = [op |-> op, path |-> path, h |-> 0, user |-> NoUser, msg |-> m,
                      ok |-> ok, push |-> push, resp |-> AfterEmit(resp, failed),
                      logged |-> (path = "rt" /\ ~ok), in |-> in,
                      payload |-> IF pushed # {} THEN BroadcastArg(m) ELSE NoMsg,
                      failed |-> failed, inserts |-> 1]
       /\ UNCHANGED <<variant, conns, closed, rooms, activeUsers, newest>>
       /\ UNCHANGED <<concVars, restVars>>

-----------------------------------------------------------------------------
\* Connection handlers.

\* Faulty OnConnect: the new connection is entered in the registry.
OnConnectRegisters(h) ==
    /\ variant \in {"presence", "stamped", "raw"}
    /\ h \notin conns \cup closed
    /\ conns' = conns \cup {h}
    /\ activeUsers' = MapSet(activeUsers, h, "")
    /\ last' = [Idle EXCEPT !.op = "connect", !.h = h]
    /\ UNCHANGED <<variant, closed, rooms, store, clock, delivered, newest>>
    /\ UNCHANGED <<concVars, restVars>>

\* OnConnect of part_000, part_001 and main.go:63: logs only.
OnConnect(h) ==
    /\ variant \in {"presence", "stamped", "raw"}
    /\ h \notin conns \cup closed
    /\ conns' = conns \cup {h}
    /\ last' = [Idle EXCEPT !.op = "connect", !.h = h]
    /\ UNCHANGED <<variant, closed, rooms, activeUsers, store, clock, delivered, newest>>
    /\ UNCHANGED <<concVars, restVars>>

\* Faulty OnConnect of the "global" build: the connection joins no room.
OnConnectNoJoin(h) ==
    /\ variant = "global"
    /\ h \notin conns \cup closed
    /\ conns' = conns \cup {h}
    /\ last' = [Idle EXCEPT !.op = "connect", !.h = h]
    /\ UNCHANGED <<variant, closed, rooms, activeUsers, store, clock, delivered, newest>>
    /\ UNCHANGED <<concVars, restVars>>

\* OnConnect of main.go:515: s.Join("global").
OnConnectJoin(h) ==
    /\ variant = "global"
    /\ h \notin conns \cup closed
    /\ conns' = conns \cup {h}
    /\ rooms' = [rooms EXCEPT !["global"] = @ \cup {h}]
    /\ last' = [Idle EXCEPT !.op = "connect", !.h = h]
    /\ UNCHANGED <<variant, closed, activeUsers, store, clock, delivered, newest>>
    /\ UNCHANGED <<concVars, restVars>>

\* user_online of part_000: activeUsers[s.ID()] = username.
UserOnline(h, username) ==
    /\ variant = "presence"
    /\ h \in conns
    /\ activeUsers' = MapSet(activeUsers, h, username)
    /\ newest' = IF username \in Users THEN [newest EXCEPT ![username] = h] ELSE newest
    /\ last' = [Idle EXCEPT !.op = "user_online", !.h = h, !.user = username]
    /\ UNCHANGED <<variant, conns, closed, rooms, store, clock, delivered>>
    /\ UNCHANGED <<concVars, restVars>>

\* OnDisconnect of part_000: delete(activeUsers, s.ID()); the library has
\* taken the connection out of every room.
OnDisconnectPresence(h) ==
    /\ variant = "presence"
    /\ h \in conns
    /\ conns' = conns \ {h}
    /\ closed' = closed \cup {h}
    /\ rooms' = [r \in RoomNames |-> rooms[r] \ {h}]
    /\ activeUsers' = MapDelete(activeUsers, h)
    /\ last' = [Idle EXCEPT !.op = "disconnect", !.h = h]
    /\ UNCHANGED <<variant, store, clock, delivered, newest>>
    /\ UNCHANGED <<concVars, restVars>>

\* OnDisconnect of the other builds: logs only.
OnDisconnect(h) ==
    /\ variant # "presence"
    /\ h \in conns
    /\ conns' = conns \ {h}
    /\ closed' = closed \cup {h}
    /\ rooms' = [r \in RoomNames |-> rooms[r] \ {h}]
    /\ last' = [Idle EXCEPT !.op = "disconnect", !.h = h]
    /\ UNCHANGED <<variant, activeUsers, store, clock, delivered, newest>>
    /\ UNCHANGED <<concVars, restVars>>

-----------------------------------------------------------------------------
\* Realtime submit handlers.  The event comes from some live connection; no
\* handler reads which one.

\* send_message of part_000: stamp, insert, BroadcastToRoom("/", "", ...).
SendMessagePresence(in, ok) ==
    /\ variant = "presence"
    /\ conns # {}
    /\ clock < MaxSubmits
    /\ LET m == Stamp(Decode(in, clock + 1), clock + 1)
       IN Finish("send_message", "rt", in, m, ok, AfterInsert(ok, BroadcastToRoom("")), "none")

\* send_message of main.go:520: stamp, insert, BroadcastToRoom("/", "global", ...).
SendMessageGlobal(in, ok) ==
    /\ variant = "global"
    /\ conns # {}
    /\ clock < MaxSubmits
    /\ LET m == Stamp(Decode(in, clock + 1), clock + 1)
       IN Finish("send_message", "rt", in, m, ok,
                 AfterInsert(ok, BroadcastToRoom("global")), "none")

\* chatMessage of part_001: createdAt set, insert, BroadcastToNamespace.
ChatMessageStamped(in, ok) ==
    /\ variant = "stamped"
    /\ conns # {}
    /\ clock < MaxSubmits
    /\ LET m == Stamp(Decode(in, clock + 1), clock + 1)
       IN Finish("chatMessage", "rt", in, m, ok, AfterInsert(ok, BroadcastToNamespace), "none")

\* chatMessage of main.go:68: the map is inserted as received.
ChatMessageRaw(in, ok) ==
    /\ variant = "raw"
    /\ conns # {}
    /\ clock < MaxSubmits
    /\ LET m == Decode(in, clock + 1)
       IN Finish("chatMessage", "rt", in, m, ok, AfterInsert(ok, BroadcastToNamespace), "none")

-----------------------------------------------------------------------------
\* REST submit handlers (POST /sendMessage).

Rejected(resp) ==
    /\ clock' = clock + 1
    /\ last' = [Idle EXCEPT !.op = "sendMessage", !.path = "rest", !.resp = resp]
    /\ UNCHANGED <<variant, conns, closed, rooms, activeUsers, store, delivered,
                   newest>>
    /\ UNCHANGED <<concVars, restVars>>

\* sendMessageHandler of part_000: POST only, decode, stamp, insert; no emit.
SendMessageHandlerPresence(req, ok) ==
    /\ variant = "presence"
    /\ clock < MaxSubmits
    /\ IF req.method # "POST" THEN Rejected("405")
       ELSE IF ~req.decodes THEN Rejected("400")
       ELSE LET m == Stamp(Decode(req.in, clock + 1), clock + 1)
            IN Finish("sendMessage", "rest", req.in, m, ok, NoPush,
                      IF ok THEN "200" ELSE "500")

\* sendMessageHandler of main.go:616: decode, stamp, insert; no emit.
SendMessageHandlerGlobal(req, ok) ==
    /\ variant = "global"
    /\ clock < MaxSubmits
    /\ IF ~req.decodes THEN Rejected("400")
       ELSE LET m == Stamp(Decode(req.in, clock + 1), clock + 1)
            IN Finish("sendMessage", "rest", req.in, m, ok, NoPush,
                      IF ok THEN "200" ELSE "500")

\* Faulty gin sendMessageHandler: the insert is not followed by a broadcast.
SendMessageHandlerGinQuiet(req, ok) ==
    /\ variant \in {"stamped", "raw"}
    /\ clock < MaxSubmits
    /\ IF ~req.decodes THEN Rejected("400")
       ELSE LET m == Stamp(Decode(req.in, clock + 1), clock + 1)
            IN Finish("sendMessage", "rest", req.in, m, ok, NoPush,
                      IF ok THEN "200" ELSE "500")

\* sendMessageHandler of part_001:204 and main.go:258: bind, createdAt set,
\* insert, BroadcastToNamespace, answer with the message.
SendMessageHandlerGin(req, ok) ==
    /\ variant \in {"stamped", "raw"}
    /\ clock < MaxSubmits
    /\ IF ~req.decodes THEN Rejected("400")
       ELSE LET m == Stamp(Decode(req.in, clock + 1), clock + 1)
            IN Finish("sendMessage", "rest", req.in, m, ok,
                      AfterInsert(ok, BroadcastToNamespace), IF ok THEN "200" ELSE "500")

-----------------------------------------------------------------------------
Next ==
    \/ \E h \in Handles : OnConnect(h)
    \/ \E h \in Handles : OnConnectJoin(h)
    \/ \E h \in Handles, u \in UserInputs : UserOnline(h, u)
    \/ \E h \in Handles : OnDisconnectPresence(h)
    \/ \E h \in Handles : OnDisconnect(h)
    \/ \E in \in Payloads, ok \in BOOLEAN : SendMessagePresence(in, ok)
    \/ \E in \in Payloads, ok \in BOOLEAN : SendMessageGlobal(in, ok)
    \/ \E in \in Payloads, ok \in BOOLEAN : ChatMessageStamped(in, ok)
    \/ \E in \in Payloads, ok \in BOOLEAN : ChatMessageRaw(in, ok)
    \/ \E req \in RestRequests, ok \in BOOLEAN : SendMessageHandlerPresence(req, ok)
    \/ \E req \in RestRequests, ok \in BOOLEAN : SendMessageHandlerGlobal(req, ok)
    \/ \E req \in RestRequests, ok \in BOOLEAN : SendMessageHandlerGin(req, ok)

Spec == Init /\ [][Next]_vars

-----------------------------------------------------------------------------
\* The presence build (part_000) statement by statement.  The socket library
\* serves each connection on a goroutine of its own, which runs the handlers
\* of that connection's events one after the other, the disconnect handler
\* last; the goroutines of different connections interleave.  proc[h].at is
\* the statement the goroutine of connection h executes next.

\* What the step-by-step handlers never change.
quietVars == <<variant, rooms, delivered, newest, last, restVars>>

\* The slice getActiveUserList builds from the map.
ActiveUserList == [u \in UserInputs |-> Cardinality({p \in activeUsers : p[2] = u})]

At(h, at) == proc[h].at = at

Goto(h, at) == proc' = [proc EXCEPT ![h].at = at]

\* Faulty mu.Lock(): returns at once, whoever holds the mutex.
LockNoWait(h) == mu' = h

\* mu.Lock(): blocks while the mutex is held.
Lock(h) == mu = 0 /\ mu' = h

\* mu.Unlock()
Unlock(h) == mu' = 0

\* OnConnect: logs only.
ConcConnect(h) ==
    /\ At(h, "unopened")
    /\ conns' = conns \cup {h}
    /\ proc' = [proc EXCEPT ![h].at = "idle"]
    /\ UNCHANGED <<closed, activeUsers, store, clock, mu, serial>>
    /\ UNCHANGED <<quietVars, sent>>

\* A user_online event of connection h arrives; its handler starts.
UserOnlineBegin(h, username) ==
    /\ At(h, "idle")
    /\ proc' = [proc EXCEPT ![h] = [at |-> "uo_lock", op |-> "user_online",
                                     username |-> username, users |-> NoUsers]]
    /\ UNCHANGED <<conns, closed, activeUsers, store, clock, mu, serial>>
    /\ UNCHANGED <<quietVars, sent>>

\* user_online: mu.Lock()
UoLock(h) ==
    /\ At(h, "uo_lock")
    /\ Lock(h)
    /\ serial' = MapSet(serial, h, proc[h].username)
    /\ Goto(h, "uo_set")
    /\ UNCHANGED <<conns, closed, activeUsers, store, clock>>
    /\ UNCHANGED <<quietVars, sent>>

\* user_online: activeUsers[s.ID()] = username
UoSet(h) ==
    /\ At(h, "uo_set")
    /\ activeUsers' = MapSet(activeUsers, h, proc[h].username)
    /\ Goto(h, "uo_unlock")
    /\ UNCHANGED <<conns, closed, store, clock, mu, serial>>
    /\ UNCHANGED <<quietVars, sent>>

\* user_online: mu.Unlock(), then the call of getActiveUserList.
UoUnlock(h) ==
    /\ At(h, "uo_unlock")
    /\ Unlock(h)
    /\ Goto(h, "list_lock")
    /\ UNCHANGED <<conns, closed, activeUsers, store, clock, serial>>
    /\ UNCHANGED <<quietVars, sent>>

\* The disconnect of connection h: the library has closed the connection and
\* the OnDisconnect handler starts.
DisconnectBegin(h) ==
    /\ At(h, "idle")
    /\ conns' = conns \ {h}
    /\ proc' = [proc EXCEPT ![h] = [at |-> "dc_lock", op |-> "disconnect",
                                     username |-> NoUser, users |-> NoUsers]]
    /\ UNCHANGED <<closed, activeUsers, store, clock, mu, serial>>
    /\ UNCHANGED <<quietVars, sent>>

\* OnDisconnect: mu.Lock()
DcLock(h) ==
    /\ At(h, "dc_lock")
    /\ Lock(h)
    /\ serial' = MapDelete(serial, h)
    /\ Goto(h, "dc_delete")
    /\ UNCHANGED <<conns, closed, activeUsers, store, clock>>
    /\ UNCHANGED <<quietVars, sent>>

\* OnDisconnect: username := activeUsers[s.ID()]; delete(activeUsers, s.ID())
DcDelete(h) ==
    /\ At(h, "dc_delete")
    /\ activeUsers' = MapDelete(activeUsers, h)
    /\ proc' = [proc EXCEPT ![h].at = "dc_unlock",
                            ![h].username = MapGet(activeUsers, h)]
    /\ UNCHANGED <<conns, closed, store, clock, mu, serial>>
    /\ UNCHANGED <<quietVars, sent>>

\* OnDisconnect: mu.Unlock(), then the call of getActiveUserList.
DcUnlock(h) ==
    /\ At(h, "dc_unlock")
    /\ Unlock(h)
    /\ Goto(h, "list_lock")
    /\ UNCHANGED <<conns, closed, activeUsers, store, clock, serial>>
    /\ UNCHANGED <<quietVars, sent>>

\* getActiveUserList: mu.Lock()
ListLock(h) ==
    /\ At(h, "list_lock")
    /\ Lock(h)
    /\ Goto(h, "list_read")
    /\ UNCHANGED <<conns, closed, activeUsers, store, clock, serial>>
    /\ UNCHANGED <<quietVars, sent>>

\* getActiveUserList: the loop over activeUsers that fills users.
ListRead(h) ==
    /\ At(h, "list_read")
    /\ proc' = [proc EXCEPT ![h].at = "list_unlock", ![h].users = ActiveUserList]
    /\ UNCHANGED <<conns, closed, activeUsers, store, clock, mu, serial>>
    /\ UNCHANGED <<quietVars, sent>>

\* Faulty getActiveUserList: returns with the mutex still held.
ListReturnLocked(h) ==
    /\ At(h, "list_unlock")
    /\ Goto(h, "write")
    /\ UNCHANGED <<conns, closed, activeUsers, store, clock, mu, serial>>
    /\ UNCHANGED <<quietVars, sent>>

\* getActiveUserList: return users, the deferred mu.Unlock() runs.
ListUnlock(h) ==
    /\ At(h, "list_unlock")
    /\ Unlock(h)
    /\ Goto(h, "write")
    /\ UNCHANGED <<conns, closed, activeUsers, store, clock, serial>>
    /\ UNCHANGED <<quietVars, sent>>

\* The handler returns after its broadcast and its log line; after
\* OnDisconnect the connection is done with (the name it logged is kept).
HandlerReturns(h) ==
    /\ At(h, "write")
    /\ proc' = [proc EXCEPT ![h] =
                    IF proc[h].op = "disconnect"
                    THEN [at |-> "closed", op |-> "none",
                          username |-> proc[h].username, users |-> NoUsers]
                    ELSE [at |-> "idle", op |-> "none",
                          username |-> NoUser, users |-> NoUsers]]
    /\ closed' = IF proc[h].op = "disconnect" THEN closed \cup {h} ELSE closed
    /\ UNCHANGED <<conns, activeUsers, store, clock, mu, serial>>
    /\ UNCHANGED quietVars

\* server.BroadcastToRoom("/", "", "active_users", users) and the log line.
WriteActiveUsers(h) == HandlerReturns(h) /\ UNCHANGED sent

\* The same statement, the list it broadcasts remembered in sent.
WriteActiveUsersSent(h) == HandlerReturns(h) /\ sent' = proc[h].users

\* send_message: msg.CreatedAt = time.Now(); InsertOne; return on an error.
SmInsert(h, ok) ==
    /\ At(h, "idle")
    /\ clock < MaxSubmits
    /\ clock' = clock + 1
    /\ store' = IF ok
                 THEN Append(store, Stamp(Decode(Payload("alice", "bob", "hi", NoStamp),
                                                 clock + 1), clock + 1))
                 ELSE store
    /\ proc' = [proc EXCEPT ![h].at = IF ok THEN "sm_write" ELSE "idle",
                            ![h].op = IF ok THEN "send_message" ELSE "none"]
    /\ UNCHANGED <<conns, closed, activeUsers, mu, serial>>
    /\ UNCHANGED <<quietVars, sent>>

\* send_message: server.BroadcastToRoom("/", "", "receive_message", msg)
SmWrite(h) ==
    /\ At(h, "sm_write")
    /\ proc' = [proc EXCEPT ![h].at = "idle", ![h].op = "none"]
    /\ UNCHANGED <<conns, closed, activeUsers, store, clock, mu, serial>>
    /\ UNCHANGED <<quietVars, sent>>

ConcInit == Init /\ variant = "presence"

ConcNext ==
    \/ \E h \in Handles : ConcConnect(h)
    \/ \E h \in Handles, u \in Users : UserOnlineBegin(h, u)
    \/ \E h \in Handles : UoLock(h)
    \/ \E h \in Handles : UoSet(h)
    \/ \E h \in Handles : UoUnlock(h)
    \/ \E h \in Handles : DisconnectBegin(h)
    \/ \E h \in Handles : DcLock(h)
    \/ \E h \in Handles : DcDelete(h)
    \/ \E h \in Handles : DcUnlock(h)
    \/ \E h \in Handles : ListLock(h)
    \/ \E h \in Handles : ListRead(h)
    \/ \E h \in Handles : ListUnlock(h)
    \/ \E h \in Handles : WriteActiveUsers(h)
    \/ \E h \in Handles, ok \in BOOLEAN : SmInsert(h, ok)
    \/ \E h \in Handles : SmWrite(h)

ConcSpec == ConcInit /\ [][ConcNext]_vars

\* The user_online and OnDisconnect handlers alone, with the history of the
\* active_users broadcasts.
PresenceNext ==
    \/ \E h \in Handles : ConcConnect(h)
    \/ \E h \in Handles, u \in Users : UserOnlineBegin(h, u)
    \/ \E h \in Handles : UoLock(h)
    \/ \E h \in Handles : UoSet(h)
    \/ \E h \in Handles : UoUnlock(h)
    \/ \E h \in Handles : DisconnectBegin(h)
    \/ \E h \in Handles : DcLock(h)
    \/ \E h \in Handles : DcDelete(h)
    \/ \E h \in Handles : DcUnlock(h)
    \/ \E h \in Handles : ListLock(h)
    \/ \E h \in Handles : ListRead(h)
    \/ \E h \in Handles : ListUnlock(h)
    \/ \E h \in Handles : WriteActiveUsersSent(h)

PresenceSpec == ConcInit /\ [][PresenceNext]_vars

-----------------------------------------------------------------------------
\* The submits of part_000 with InsertOne as a call that is pending until the
\* document store answers it.

\* The message the submits of this specification carry, stamped at time t.
Submitted(t) == Stamp(Decode(Payload("alice", "bob", "hi", NoStamp), t), t)

\* send_message: msg.CreatedAt = time.Now(); InsertOne(context.Background(), msg)
\* is called.  The context has no deadline and is never cancelled.
SmCall(h) ==
    /\ At(h, "idle")
    /\ clock < MaxSubmits
    /\ clock' = clock + 1
    /\ proc' = [proc EXCEPT ![h].at = "sm_insert", ![h].op = "send_message"]
    /\ UNCHANGED <<conns, closed, activeUsers, store, mu, serial>>
    /\ UNCHANGED <<quietVars, sent>>

\* The store answers the insert of send_message: on an error the handler logs
\* and returns, otherwise it goes on to its broadcast.
SmAnswer(h, ok) ==
    /\ At(h, "sm_insert")
    /\ store' = IF ok THEN Append(store, Submitted(clock)) ELSE store
    /\ proc' = [proc EXCEPT ![h].at = IF ok THEN "sm_write" ELSE "idle",
                            ![h].op = IF ok THEN "send_message" ELSE "none"]
    /\ UNCHANGED <<conns, closed, activeUsers, clock, mu, serial>>
    /\ UNCHANGED <<quietVars, sent>>

\* A request is in sendMessageHandler and no answer has been written.
RestPending == http.route = "sendMessage" /\ http.status = 0

\* POST /sendMessage with a JSON body: cors sets the headers and calls
\* sendMessageHandler, which decodes, stamps and calls
\* InsertOne(r.Context(), msg).  The server is started without timeouts, so
\* the request's context has no deadline.
RestCall ==
    /\ ~RestPending
    /\ http.n < MaxRequests
    /\ http' = [NoExchange EXCEPT !.n = http.n + 1, !.route = "sendMessage",
                                  !.method = "POST", !.body = "json",
                                  !.headers = TRUE, !.calls = 1, !.inserts = 1]
    /\ UNCHANGED <<variant, conns, closed, rooms, activeUsers, store, clock,
                   delivered, newest, last, concVars, posts, modules, files>>

\* InsertOne returns in sendMessageHandler (the store has answered, or the
\* client has gone and the request's context is cancelled): 500 "db error" on
\* an error, {"status": "ok"} otherwise.
RestAnswer(ok) ==
    /\ RestPending
    /\ store' = IF ok THEN Append(store, Submitted(clock)) ELSE store
    /\ http' = [http EXCEPT !.status = IF ok THEN 200 ELSE 500, !.ok = ok]
    /\ UNCHANGED <<variant, conns, closed, rooms, activeUsers, clock,
                   delivered, newest, last, concVars, posts, modules, files>>

LiveNext ==
    \/ \E h \in Handles : ConcConnect(h)
    \/ \E h \in Handles : SmCall(h)
    \/ \E h \in Handles, ok \in BOOLEAN : SmAnswer(h, ok)
    \/ \E h \in Handles : SmWrite(h)
    \/ RestCall
    \/ \E ok \in BOOLEAN : RestAnswer(ok)

\* A handler that can take its next statement takes it; nothing makes the
\* document store answer.
LiveSpec ==
    ConcInit /\ [][LiveNext]_vars /\ \A h \in Handles : WF_vars(SmWrite(h))

-----------------------------------------------------------------------------
\* The HTTP write routes of the four builds, each request served in one step.
\* No socket connection is open in this specification, so the broadcast of the
\* gin sendMessageHandler reaches nobody.

Methods == {"GET", "POST", "OPTIONS", "DELETE"}
\* Request bodies: a JSON document, bytes that are no JSON, a multipart form
\* with a file part.
Bodies == {"json", "garbage", "form"}
FileNames == {"a.pdf", "b.pdf"}
\* The id parameter of deleteModule: 0 stands for a string that is no ObjectID,
\* the others are ObjectIDs (a module's id is the number of the request that
\* inserted it).
ModuleIds == 0..MaxRequests

\* What a handler has done: its answer and the collections and the file store
\* as it leaves them.
Untouched ==
    [status |-> 0, inserts |-> 0, ok |-> FALSE, wrote |-> FALSE,
     posts |-> posts, store |-> store, modules |-> modules, files |-> files]

\* http.Error(w, ..., st) or the encoded answer, nothing else done.
Answer(st) == [Untouched EXCEPT !.status = st]

\* Faulty wrapper: the preflight request is passed on to the handler.
corsPassOptions(method, handled) == [out |-> handled, headers |-> TRUE, calls |-> 1]

\* cors(next): the headers are set; OPTIONS is answered 200 without next,
\* every other method goes to next once.
cors(method, handled) ==
    IF method = "OPTIONS"
    THEN [out |-> Answer(200), headers |-> TRUE, calls |-> 0]
    ELSE [out |-> handled, headers |-> TRUE, calls |-> 1]

\* r.POST(path, handler), r.DELETE(path, handler): gin calls the handler for
\* the registered method and answers 404 to any other.
ginRoute(registered, method, handled) ==
    IF method = registered
    THEN [out |-> handled, headers |-> FALSE, calls |-> 1]
    ELSE [out |-> Answer(404), headers |-> FALSE, calls |-> 0]

\* uploadPostHandler of part_000:209 (main.go:888 answers 201): POST only,
\* decode, createdAt, InsertOne.
uploadPostHandler(method, body, ok) ==
    IF method # "POST" THEN Answer(405)
    ELSE IF body # "json" THEN Answer(400)
    ELSE IF ~ok THEN [Answer(500) EXCEPT !.inserts = 1]
    ELSE [Answer(200) EXCEPT !.inserts = 1, !.ok = TRUE, !.posts = posts + 1]

\* uploadPostHandler of main.go:588: decode, createdAt, InsertOne; the method
\* is not looked at.
uploadPostHandlerOpen(body, ok) ==
    IF body # "json" THEN Answer(400)
    ELSE IF ~ok THEN [Answer(500) EXCEPT !.inserts = 1]
    ELSE [Answer(200) EXCEPT !.inserts = 1, !.ok = TRUE, !.posts = posts + 1]

\* uploadPostHandler of main.go:231 and part_001:169: BindJSON, createdAt,
\* InsertOne.
uploadPostHandlerBind(body, ok) ==
    IF body # "json" THEN Answer(400)
    ELSE IF ~ok THEN [Answer(500) EXCEPT !.inserts = 1]
    ELSE [Answer(200) EXCEPT !.inserts = 1, !.ok = TRUE, !.posts = posts + 1]

\* sendMessageHandler of part_000:247 and main.go:926: POST only, decode,
\* CreatedAt, InsertOne.
sendMessageHandler(method, body, ok) ==
    IF method # "POST" THEN Answer(405)
    ELSE IF body # "json" THEN Answer(400)
    ELSE IF ~ok THEN [Answer(500) EXCEPT !.inserts = 1]
    ELSE [Answer(200) EXCEPT !.inserts = 1, !.ok = TRUE,
                             !.store = Append(store, Submitted(http.n + 1))]

\* sendMessageHandler of main.go:616: decode, CreatedAt, InsertOne; the method
\* is not looked at.
sendMessageHandlerOpen(body, ok) ==
    IF body # "json" THEN Answer(400)
    ELSE IF ~ok THEN [Answer(500) EXCEPT !.inserts = 1]
    ELSE [Answer(200) EXCEPT !.inserts = 1, !.ok = TRUE,
                             !.store = Append(store, Submitted(http.n + 1))]

\* sendMessageHandler of main.go:258 and part_001:204: BindJSON, createdAt,
\* InsertOne, BroadcastToNamespace.
sendMessageHandlerBind(body, ok) ==
    IF body # "json" THEN Answer(400)
    ELSE IF ~ok THEN [Answer(500) EXCEPT !.inserts = 1]
    ELSE [Answer(200) EXCEPT !.inserts = 1, !.ok = TRUE,
                             !.store = Append(store, Submitted(http.n + 1))]

\* The module record of the request being served.
NewModule(name) == [id |-> http.n + 1, file |-> name]

\* The module record that the request of exchange x inserts.
NewModuleOf(x) == [id |-> x.n, file |-> x.file]

\* uploadModuleHandler of part_000:268: POST only, the form and its file part,
\* OpenUploadStream, defer Close, io.Copy, InsertOne, each error answered.
\* Once the stream is open the deferred Close leaves a file in GridFS: a
\* truncated one when io.Copy failed, the whole one when the insert failed.
uploadModuleHandler(method, body, name, opened, copied, ok) ==
    IF method # "POST" THEN Answer(405)
    ELSE IF body # "form" THEN Answer(400)
    ELSE IF ~opened THEN Answer(500)
    ELSE IF ~copied THEN [Answer(500) EXCEPT !.files = files \cup {name}]
    ELSE IF ~ok THEN [Answer(500) EXCEPT !.inserts = 1, !.wrote = TRUE,
                                         !.files = files \cup {name}]
    ELSE [Answer(200) EXCEPT !.inserts = 1, !.ok = TRUE, !.wrote = TRUE,
                             !.files = files \cup {name},
                             !.modules = modules \cup {NewModule(name)}]

\* uploadModuleHandler of main.go:644: the results of ParseMultipartForm,
\* io.Copy and InsertOne are not read; the module is the answer whatever
\* happened after OpenUploadStream.
uploadModuleHandlerOpen(body, name, opened, copied, ok) ==
    IF body # "form" THEN Answer(400)
    ELSE IF ~opened THEN Answer(500)
    ELSE [Answer(200) EXCEPT !.inserts = 1, !.ok = ok, !.wrote = copied,
                             !.files = files \cup {name},
                             !.modules = IF ok THEN modules \cup {NewModule(name)}
                                         ELSE modules]

\* uploadModuleHandler of main.go:304 and part_001:248: FormFile, MkdirAll,
\* SaveUploadedFile to ./uploads/<name>, InsertOne.  SaveUploadedFile
\* creates the file and copies into it: a copy that fails leaves a truncated
\* file, and the saved file stays on disk when the insert fails.
uploadModuleHandlerDisk(body, name, opened, copied, ok) ==
    IF body # "form" THEN Answer(400)
    ELSE IF ~opened THEN Answer(500)
    ELSE IF ~copied THEN [Answer(500) EXCEPT !.files = files \cup {name}]
    ELSE IF ~ok THEN [Answer(500) EXCEPT !.inserts = 1, !.wrote = TRUE,
                                         !.files = files \cup {name}]
    ELSE [Answer(200) EXCEPT !.inserts = 1, !.ok = TRUE, !.wrote = TRUE,
                             !.files = files \cup {name},
                             !.modules = modules \cup {NewModule(name)}]

\* deleteModuleHandler of main.go:353 and part_001:289: ObjectIDFromHex,
\* FindOne, os.Remove with its result not read, DeleteOne.
deleteModuleHandler(id, removed, ok) ==
    LET found == {m \in modules : m.id = id}
        after == IF removed THEN files \ {m.file : m \in found} ELSE files
    IN IF id = 0 THEN Answer(400)
       ELSE IF found = {} THEN Answer(404)
       ELSE IF ~ok THEN [Answer(500) EXCEPT !.files = after]
       ELSE [Answer(200) EXCEPT !.ok = TRUE, !.files = after,
                                !.modules = modules \ found]

\* One request is served: the exchange is recorded and the handler's effects
\* are applied.
Serve(route, method, body, name, id, res) ==
    /\ http.n < MaxRequests
    /\ http' = [n |-> http.n + 1, route |-> route, method |-> method, body |-> body,
                status |-> res.out.status, headers |-> res.headers,
                calls |-> res.calls, inserts |-> res.out.inserts, ok |-> res.out.ok,
                wrote |-> res.out.wrote, file |-> name, id |-> id]
    /\ posts' = res.out.posts
    /\ store' = res.out.store
    /\ modules' = res.out.modules
    /\ files' = res.out.files
    /\ UNCHANGED <<variant, conns, closed, rooms, activeUsers, clock, delivered,
                   newest, last, concVars>>

\* A request to /uploadPost.
UploadPost(method, body, ok) ==
    /\ variant \in Variants
    /\ Serve("uploadPost", method, body, "", 0,
             IF variant = "presence" THEN cors(method, uploadPostHandler(method, body, ok))
             ELSE IF variant = "global" THEN cors(method, uploadPostHandlerOpen(body, ok))
             ELSE ginRoute("POST", method, uploadPostHandlerBind(body, ok)))

\* A request to /sendMessage.
SendMessage(method, body, ok) ==
    /\ variant \in Variants
    /\ Serve("sendMessage", method, body, "", 0,
             IF variant = "presence" THEN cors(method, sendMessageHandler(method, body, ok))
             ELSE IF variant = "global" THEN cors(method, sendMessageHandlerOpen(body, ok))
             ELSE ginRoute("POST", method, sendMessageHandlerBind(body, ok)))

\* A request to /uploadModule.
UploadModule(method, body, name, opened, copied, ok) ==
    /\ variant \in Variants
    /\ Serve("uploadModule", method, body, name, 0,
             IF variant = "presence"
             THEN cors(method, uploadModuleHandler(method, body, name, opened, copied, ok))
             ELSE IF variant = "global"
             THEN cors(method, uploadModuleHandlerOpen(body, name, opened, copied, ok))
             ELSE ginRoute("POST", method,
                           uploadModuleHandlerDisk(body, name, opened, copied, ok)))

\* A request to /deleteModule, a route of the gin builds.
DeleteModule(method, id, removed, ok) ==
    /\ variant \in {"stamped", "raw"}
    /\ Serve("deleteModule", method, "none", "", id,
             ginRoute("DELETE", method, deleteModuleHandler(id, removed, ok)))

HttpNext ==
    \/ \E method \in Methods, body \in Bodies, ok \in BOOLEAN :
          UploadPost(method, body, ok)
    \/ \E method \in Methods, body \in Bodies, ok \in BOOLEAN :
          SendMessage(method, body, ok)
    \/ \E method \in Methods, body \in Bodies, name \in FileNames,
          opened \in BOOLEAN, copied \in BOOLEAN, ok \in BOOLEAN :
          UploadModule(method, body, name, opened, copied, ok)
    \/ \E method \in Methods, id \in ModuleIds, removed \in BOOLEAN, ok \in BOOLEAN :
          DeleteModule(method, id, removed, ok)

HttpSpec == Init /\ [][HttpNext]_vars

-----------------------------------------------------------------------------
\* Vocabulary of the properties.

SubmitOps == {"send_message", "chatMessage", "sendMessage"}

\* The last handler was a submit that reached InsertOne.
Attempted == last.op \in SubmitOps /\ last.resp \notin {"400", "405"}

\* ... and InsertOne succeeded / failed.
Inserted == Attempted /\ last.ok
InsertFailed == Attempted /\ ~last.ok

\* The last handler was a realtime submit (SubmitMessage) whose insert succeeded.
RtInserted == Inserted /\ last.path = "rt"

\* Handle h is in the registry under user identifier u.
Registered(h, u) == <<h, u>> \in activeUsers

Persisted(m) == \E i \in 1..Len(store) : store[i] = m

PushedHandles == {h \in Handles : last.push[h] > 0}

\* The message names a sender and a receiver and has a body.
WellFormed(m) == m.sender \in Users /\ m.receiver \in Users /\ m.body # ""

-----------------------------------------------------------------------------
\* C1: for every (handle, id) pair in the registry at submit time, a
\* SubmitMessage whose receiver is id and whose insert succeeds makes exactly
\* one receive_message push to that handle.
C1_RegisteredReceiverPushedOnce ==
    (RtInserted /\ WellFormed(last.msg)) =>
        \A h \in Handles : Registered(h, last.msg.receiver) => last.push[h] = 1

C2_Audience ==
    CASE variant = "presence" -> {}
      [] variant = "global" -> IF last.path = "rt" THEN conns ELSE {}
      [] OTHER -> conns

C3_SenderAndReceiverEachPushedOnce ==
    (RtInserted /\ WellFormed(last.msg) /\ last.msg.sender # last.msg.receiver) =>
        \A h1, h2 \in Handles :
            (h1 # h2 /\ Registered(h1, last.msg.sender) /\ Registered(h2, last.msg.receiver))
                => /\ last.push[h1] = 1
                   /\ last.push[h2] = 1
                   /\ Len(store) > 0
                   /\ store[Len(store)] = last.msg

C5_FailedStep == clock' = clock + 1 /\ InsertFailed'

C5_NothingDone ==
    /\ \A h \in Handles : last'.push[h] = 0
    /\ store' = store
    /\ delivered' = delivered
    /\ activeUsers' = activeUsers
    /\ rooms' = rooms
    /\ conns' = conns

C6_OnlyNewestHandlePushed ==
    (RtInserted /\ WellFormed(last.msg)) =>
        \A h1, h2 \in Handles :
            LET u == last.msg.receiver
            IN (/\ last.msg.sender # u
                /\ h2 = newest[u]
                /\ h1 # h2
                /\ Registered(h1, u)
                /\ Registered(h2, u))
                   => (last.push[h2] = 1 /\ last.push[h1] = 0)

C8_UnregisteredReceiverSenderEcho ==
    (/\ variant = "presence"
     /\ RtInserted
     /\ WellFormed(last.msg)
     /\ newest[last.msg.receiver] = 0)
        => /\ Persisted(last.msg)
           /\ ~last.logged
           /\ PushedHandles = {h \in Handles : Registered(h, last.msg.sender)}

\* C9: every message that was pushed to a connection had been inserted into
\* the store by the same submit.
C9_DeliveredWasInserted ==
    /\ \A m \in delivered : Persisted(m)
    /\ (last.op \in SubmitOps /\ PushedHandles # {})
          => (last.ok /\ Len(store) > 0 /\ store[Len(store)] = last.msg)

\* C9 witness: a chatMessage has been pushed to a live connection.
C9_Witness ==
    /\ last.op = "chatMessage"
    /\ PushedHandles # {}
    /\ last.msg \in delivered

\* C10: every stored message carries a timestamp the server assigned during
\* the submit; a client's timestamp, or none, is never what is stored.
C10_ServerTimestampStored ==
    \A i \in 1..Len(store) :
        store[i].createdAt.src = "server" /\ store[i].createdAt.t = store[i].id

\* The payload lacks the sender, the receiver or the body.
Malformed(in) == in.sender = "" \/ in.receiver = "" \/ in.body = ""

\* C11: a submit whose payload lacks the sender, the receiver or the body is
\* rejected before any persistence attempt: InsertOne is not called, no record
\* of it is in the store and no push is made.
C11_MalformedRejectedBeforeInsert ==
    /\ (last.op \in SubmitOps /\ Malformed(last.in))
          => (last.inserts = 0 /\ PushedHandles = {})
    /\ \A i \in 1..Len(store) : ~Malformed(store[i])

\* C12: a user_online with an empty user identifier leaves the registry as it
\* was: no entry is created or overwritten.
C12_EmptyRegisterIgnored ==
    [][(last' # last /\ last'.op = "user_online" /\ last'.user = "")
          => activeUsers' = activeUsers]_vars

\* C13: the disconnect of handle H removes exactly the registry entry whose
\* handle is H and leaves every other entry as it was; when H has no entry the
\* registry is unchanged and nothing is signalled.
C13_DisconnectRemovesOnlyOwnEntry ==
    [][closed' # closed =>
          LET H == last'.h
          IN /\ last'.op = "disconnect"
             /\ closed' = closed \cup {H}
             /\ activeUsers' = {p \in activeUsers : p[1] # H}
             /\ ~MapHas(activeUsers, H) => activeUsers' = activeUsers
             /\ last'.resp = "none" /\ ~last'.logged]_vars

\* C13 witness: a handle that had registered has disconnected and the entry
\* of another handle is still in the registry.
C13_Witness ==
    /\ last.op = "disconnect"
    /\ \E u \in Users : newest[u] = last.h
    /\ ~MapHas(activeUsers, last.h)
    /\ activeUsers # {}

\* The OnDisconnect handler of connection h has executed its delete.
DeleteDone(h) ==
    \/ h \in closed
    \/ proc[h].op = "disconnect" /\ proc[h].at \notin {"dc_lock", "dc_delete"}

\* C14: under every interleaving of the handlers' statements, once the
\* disconnect of a connection has been processed no registry entry refers to
\* that connection, in that state and in every later one.
C14_NoStaleHandle ==
    /\ \A p \in activeUsers : p[1] \notin closed
    /\ \A h \in Handles : DeleteDone(h) => ~MapHas(activeUsers, h)

\* C14 witness: a connection that was registered under a name has been
\* disconnected while another connection stays registered.
C14_Witness ==
    \E h \in closed :
        /\ proc[h].username \in Users
        /\ ~MapHas(activeUsers, h)
        /\ \E g \in conns : MapHas(activeUsers, g)

\* Where a connection is in its life.
\* ("Broken": in the registry without being live, or live and closed at once.)
Phase(h) ==
    IF MapHas(activeUsers, h)
    THEN (IF h \in conns \ closed THEN "Registered" ELSE "Broken")
    ELSE IF h \in conns THEN (IF h \in closed THEN "Broken" ELSE "Connected")
    ELSE IF h \in closed THEN "Disconnected" ELSE "Unopened"

\* C15: each connection goes Connected -> Registered -> Disconnected and no
\* other way.  In every step that changes the connections or the registry:
\* a disconnected handle stays disconnected and is never live again; a live
\* handle leaves only by its disconnect; the registry holds only handles that
\* are live and were live before the step (a connect creates no entry, a
\* disconnected handle never re-enters); a connect changes no entry.
C15_ConnectionLifecycle ==
    [][\/ UNCHANGED <<conns, closed, activeUsers>>
       \/ /\ closed \subseteq closed'
          /\ conns' \cap closed' = {}
          /\ conns \ conns' \subseteq closed'
          /\ \A p \in activeUsers' : p[1] \in conns' /\ p[1] \in conns
          /\ conns' \ conns # {} => activeUsers' = activeUsers]_vars

\* C15 witness: one handle has registered and then disconnected, and another
\* has just connected and is in the registry under no user.
C15_Witness ==
    /\ last.op = "connect"
    /\ Phase(last.h) = "Connected"
    /\ \E h \in closed, u \in Users : newest[u] = h /\ Phase(h) = "Disconnected"

\* The last handler was the REST submit and its insert succeeded.
RestInserted == Inserted /\ last.path = "rest"

\* C16 as stated: the REST submit inserts the message record and triggers no
\* push to any realtime connection.
C16_RestPersistsOnly ==
    RestInserted => (Persisted(last.msg) /\ PushedHandles = {})

\* C16 as amended: the REST submit inserts the message record; the net/http
\* builds (part_000, main.go:616) trigger no push, the gin builds (part_001,
\* main.go:258) then broadcast the record to every live connection.
C16_RestPersistsGinBroadcasts ==
    RestInserted =>
        /\ Persisted(last.msg)
        /\ PushedHandles = IF variant \in {"stamped", "raw"} THEN conns ELSE {}

\* C16 witness: a REST submit of a gin build has been stored and pushed to the
\* two live connections.
C16_Witness ==
    /\ RestInserted
    /\ variant = "raw"
    /\ Cardinality(conns) = 2
    /\ PushedHandles = conns

LockedLocs == {"uo_set", "uo_unlock", "dc_delete", "dc_unlock", "list_read", "list_unlock"}

\* The statements that read or write activeUsers.
AccessLocs == {"uo_set", "dc_delete", "list_read"}

\* The statements that write to connections.
WriteLocs == {"write", "sm_write"}

\* C18: every read and write of the registry happens with mu held by the
\* goroutine that makes it, at most one goroutine is between Lock and Unlock,
\* and whenever mu is free the registry is the one that running the
\* operations whole, one after the other in the order of their Lock, gives:
\* no update is lost.
C18_RegistryAccessSerialised ==
    /\ \A h \in Handles : proc[h].at \in AccessLocs => mu = h
    /\ \A h \in Handles : proc[h].at \in LockedLocs <=> mu = h
    /\ Cardinality({h \in Handles : proc[h].at \in LockedLocs}) <= 1
    /\ mu = 0 => activeUsers = serial

\* C18 witness: one connection is writing its entry under the lock while a
\* registered connection's disconnect waits for the lock.
C18_Witness ==
    \E h, g \in Handles :
        /\ h # g
        /\ proc[h].at = "uo_set"
        /\ proc[g].at = "dc_lock"
        /\ MapHas(activeUsers, g)

\* C19: no goroutine holds mu while it writes to connections: the lock is
\* released before the broadcast starts, so a write that blocks keeps no other
\* connection from taking the lock.
C19_NoLockDuringWrite ==
    /\ \A h \in Handles : proc[h].at \in WriteLocs => mu # h
    /\ mu # 0 => proc[mu].at \notin WriteLocs

\* C19 witness: the active_users broadcast of one connection is pending while
\* another connection holds the lock and changes the registry.
C19_Witness ==
    \E h, g \in Handles :
        /\ h # g
        /\ proc[h].at = "write"
        /\ mu = g
        /\ proc[g].at \in {"uo_set", "dc_delete"}

HandlersFinished == \A h \in Handles : proc[h].op \notin {"user_online", "disconnect"}

\* C23: once all user_online and disconnect handlers have finished, the most
\* recently broadcast active_users list holds the user names that are in
\* activeUsers, under every interleaving of the handlers.
C23_LastBroadcastIsRegistry ==
    HandlersFinished =>
        {u \in UserInputs : sent[u] > 0} = {u \in UserInputs : ActiveUserList[u] > 0}

C22_SubmitTerminates ==
    /\ \A h \in Handles : (proc[h].at = "sm_insert") ~> (proc[h].at # "sm_insert")
    /\ RestPending ~> ~RestPending

\* The step serves a request to route and the route's handler is called.
Handled(route) == http'.n # http.n /\ http'.route = route /\ http'.calls = 1

\* C25: deleteModule is all-or-nothing between the file store and the module
\* collection: when it answers with a failure the module record it was asked
\* to delete and the file of that record are both still there, and when it
\* answers success both are gone.
C25_DeleteAllOrNothing ==
    [][Handled("deleteModule") =>
          \A m \in modules : m.id = http'.id =>
              IF http'.status = 200
              THEN m \notin modules' /\ m.file \notin files'
              ELSE m \in modules' /\ (m.file \in files => m.file \in files')]_vars

\* C26: uploadModule answers success only when the file was stored and the
\* module record was inserted; when it answers with an error, no file written
\* by the request is left in the file store without a module record pointing
\* to it.
C26_UploadAllOrNothing ==
    (http.route = "uploadModule" /\ http.calls = 1) =>
        IF http.status = 200
        THEN http.wrote /\ http.file \in files /\ NewModuleOf(http) \in modules
        ELSE ~(http.wrote /\ http.file \in files
                 /\ \A m \in modules : m.file # http.file)

\* C27: a request that uploadPost or sendMessage rejects performs no store
\* write: a request that is not a POST gets 405, a body that does not decode
\* gets 400, InsertOne is called in neither case, and the success answer is
\* given only after InsertOne has returned without an error.
C27_RejectedWritesNothing ==
    (http.route \in {"uploadPost", "sendMessage"} /\ http.calls = 1 /\ http.status # 0) =>
        /\ http.method # "POST" => http.status = 405 /\ http.inserts = 0
        /\ (http.method = "POST" /\ http.body # "json") =>
               http.status = 400 /\ http.inserts = 0
        /\ http.status = 200 => http.inserts = 1 /\ http.ok

\* C28: the cors wrapper sets the CORS headers on every request; an OPTIONS
\* request is answered 200 without the wrapped handler being called and
\* without any access to the collections or the file store, and a request of
\* any other method goes to the wrapped handler exactly once.
C28_CorsShortCircuitsPreflight ==
    [][(http'.n # http.n /\ variant \in {"presence", "global"}) =>
          /\ http'.headers
          /\ IF http'.method = "OPTIONS"
             THEN /\ http'.status = 200
                  /\ http'.calls = 0
                  /\ http'.inserts = 0
                  /\ UNCHANGED <<posts, store, modules, files>>
             ELSE http'.calls = 1]_vars

\* C28 witness: after a post was uploaded, the build whose handlers do not
\* look at the method has answered an OPTIONS request carrying a JSON body
\* with 200, the headers set and no handler called.
C28_Witness ==
    /\ variant = "global"
    /\ posts = 1
    /\ http.n = 2
    /\ http.method = "OPTIONS"
    /\ http.body = "json"
    /\ http.headers
    /\ http.status = 200
    /\ http.calls = 0

====
